---- MODULE Spec2Model ----
(***************************************************************************)
(* Model of mcp-dutch-postal-codes (src/main.go): the two lookup tools     *)
(* (lookup_by_postal_code, lookup_by_coordinates), the address formatter   *)
(* and the bootstrap of main with its interrupt-driven shutdown.           *)
(*                                                                         *)
(* Go strings that the code inspects character by character (the postal    *)
(* code, the listen address) are sequences of one-character strings; Str   *)
(* renders them into the text they are printed as.  Go float64 coordinates *)
(* are integer-valued here; %v prints such a float without a fraction.     *)
(***************************************************************************)
EXTENDS Integers, Sequences, FiniteSets, TLC

VARIABLES
    calls,        \* worker -> the tool invocation it runs (or ran last)
    now,          \* clock of the tool invocations, in seconds
    fmtAddr,      \* the Address handed to formatAddress
    sb,           \* the chunks formatAddress wrote to its strings.Builder
    fmtText,      \* sb.String(), the text formatAddress returned
    useStdio,     \* flag -stdio
    useSSE,       \* flag -sse
    httpAddr,     \* flag -http
    pc,           \* position of main
    sigAttached,  \* signal.NotifyContext handler installed and not stopped
    ctxDone,      \* main's ctx is cancelled (first interrupt received)
    tools,        \* the tools registered with mcpServer
    stdioOn,      \* the stdio transport reads tool requests
    serve,        \* the goroutine running httpServer.ListenAndServe
    shut,         \* the goroutine running httpServer.Shutdown
    inShutdown,   \* httpServer.Shutdown has been called
    conns,        \* HTTP requests in flight on httpServer
    wg,           \* the sync.WaitGroup counter
    winStart,     \* time at which the shutdown window started (-1: not yet)
    clock,        \* clock of the bootstrap, in seconds
    dispatched    \* the tool sets that accepted tool requests were dispatched against

handlerVars == <<calls, now>>
formatVars == <<fmtAddr, sb, fmtText>>
bootVars == <<useStdio, useSSE, httpAddr, pc, sigAttached, ctxDone, tools, stdioOn,
              serve, shut, inShutdown, conns, wg, winStart, clock, dispatched>>
vars == <<calls, now, fmtAddr, sb, fmtText, useStdio, useSSE, httpAddr, pc,
          sigAttached, ctxDone, tools, stdioOn, serve, shut, inShutdown, conns, wg,
          winStart, clock, dispatched>>

-----------------------------------------------------------------------------
(* Bounds *)

MaxLen == 3        \* longest postal code argument, in characters
MaxAddrs == 2      \* most addresses in one upstream body
MaxTime == 7       \* the clocks stop here
MaxConns == 1      \* most HTTP requests in flight at once

(* Program constants *)

HandlerTimeout == 5      \* context.WithTimeout(ctx, 5*time.Second)
ShutdownTimeout == 5     \* timeout := 5 * time.Second
StatusOK == 200          \* http.StatusOK

baseURL == "https://berthub.eu/pcode"

NoDeadline == -1         \* a context without a deadline

Min(a, b) == IF a <= b THEN a ELSE b

-----------------------------------------------------------------------------
(* Strings *)

Chars == {"1", "A", " "}

StringsUpTo(n) == UNION {[1..k -> Chars] : k \in 0..n}

RECURSIVE Str(_)
Str(s) == IF s = <<>> THEN "" ELSE Head(s) \o Str(Tail(s))

\* strings.Replace(s, " ", "", 1): only the first space goes.
RECURSIVE ReplaceFirstSpace(_)
ReplaceFirstSpace(s) ==
    IF s = <<>> THEN <<>>
    ELSE IF Head(s) = " " THEN Tail(s)
    ELSE <<Head(s)>> \o ReplaceFirstSpace(Tail(s))

\* strings.ReplaceAll(s, " ", "")
RECURSIVE ReplaceAllSpaces(_)
ReplaceAllSpaces(s) ==
    IF s = <<>> THEN <<>>
    ELSE IF Head(s) = " " THEN ReplaceAllSpaces(Tail(s))
    ELSE <<Head(s)>> \o ReplaceAllSpaces(Tail(s))

\* strings.Join(elems, sep)
RECURSIVE Join(_, _)
Join(elems, sep) ==
    IF elems = <<>> THEN ""
    ELSE IF Len(elems) = 1 THEN elems[1]
    ELSE elems[1] \o sep \o Join(Tail(elems), sep)

-----------------------------------------------------------------------------
(* Address and formatAddress.  The unit of the Area line, square metres, is      *)
(* written m2.                                                             *)

Address(street, postcode, letter, suffix, area, purposes, year, lat, lon, x, y) ==
    [Street |-> street, HouseNumber |-> 12, HouseLetter |-> letter,
     HouseSuffix |-> suffix, City |-> "Amsterdam", PostalCode |-> postcode,
     Area |-> area, UsagePurposes |-> purposes, BuildYear |-> year,
     NumberStatus |-> "Naamgeving uitgegeven", Latitude |-> lat, Longitude |-> lon,
     X |-> x, Y |-> y]

\* if addr.Latitude != 0 || addr.Longitude != 0
hasWGS84Either(addr) == addr.Latitude # 0 \/ addr.Longitude # 0

hasWGS84(addr) == addr.Latitude # 0 /\ addr.Longitude # 0

wgs84Line(addr) ==
    "  Coordinates (WGS84): " \o ToString(addr.Latitude) \o ", "
        \o ToString(addr.Longitude) \o "\n"

formatWrites(addr) ==
    LET houseNumberFull ==
            ToString(addr.HouseNumber)
                \o (IF addr.HouseLetter # "" THEN addr.HouseLetter ELSE "")
                \o (IF addr.HouseSuffix # "" THEN "-" \o addr.HouseSuffix ELSE "")
    IN  <<"  Street: " \o addr.Street \o "\n",
          "  House Number: " \o houseNumberFull \o "\n",
          "  Postal Code: " \o addr.PostalCode \o "\n",
          "  City: " \o addr.City \o "\n">>
        \o (IF addr.Area # 0
              THEN <<"  Area: " \o ToString(addr.Area) \o " m2\n">> ELSE <<>>)
        \o (IF Len(addr.UsagePurposes) > 0
              THEN <<"  Usage Purposes: " \o Join(addr.UsagePurposes, ", ") \o "\n">>
              ELSE <<>>)
        \o (IF addr.BuildYear # 0
              THEN <<"  Build Year: " \o ToString(addr.BuildYear) \o "\n">> ELSE <<>>)
        \o (IF hasWGS84(addr) THEN <<wgs84Line(addr)>> ELSE <<>>)
        \o (IF addr.X # "" /\ addr.Y # ""
              THEN <<"  Coordinates (Dutch Grid): " \o addr.X \o ", " \o addr.Y \o "\n">>
              ELSE <<>>)
        \o <<"\n">>

formatAddress(addr) == Join(formatWrites(addr), "")

-----------------------------------------------------------------------------
(* What http.DefaultClient.Do and the JSON decoder hand to a lookup *)

NoOutcome ==
    [kind |-> "none", cause |-> "", status |-> 0, valid |-> FALSE, addresses |-> <<>>]

\* Do returned an error (the context ended, or the network failed).
DoError(cause) ==
    [kind |-> "error", cause |-> cause, status |-> 0, valid |-> FALSE,
     addresses |-> <<>>]

\* Do returned a response; valid says whether json.Decoder.Decode of its body into
\* []Address returned no error, addresses is what it decoded.
Response(status, valid, addresses) ==
    [kind |-> "response",
     cause |-> IF valid THEN "" ELSE "unexpected end of JSON input",
     status |-> status, valid |-> valid,
     addresses |-> addresses]

Found(addresses) == [ok |-> TRUE, err |-> "", addresses |-> addresses]

Failed(err) == [ok |-> FALSE, err |-> err, addresses |-> <<>>]

\* What (*url.Error).Error() prints for a failed GET.
urlError(requestURL, cause) == "Get \"" \o requestURL \o "\": " \o cause

\* if resp.StatusCode >= 500
upstreamFailedServerOnly(status) == status >= 500

upstreamFailed(status) == status # StatusOK

statusError(status) == "API returned status code " \o ToString(status)

-----------------------------------------------------------------------------
(* lookupByPostalCode *)

\* Only the first space is removed.
normalizeFirstSpace(postalCode) == ReplaceFirstSpace(postalCode)

normalizePostalCode(postalCode) == ReplaceAllSpaces(postalCode)

postalCodeRequestURL(postalCode, houseNumber, houseLetter) ==
    LET normalized == normalizePostalCode(postalCode)
        requestURL == baseURL \o "/" \o Str(normalized)
    IN  IF houseNumber # ""
          THEN IF houseLetter # ""
                 THEN requestURL \o "/" \o houseNumber \o "/" \o houseLetter
                 ELSE requestURL \o "/" \o houseNumber
          ELSE requestURL

\* for _, a := range addresses { a.PostalCode = postalCode }: the copies change.
overwriteCopies(addresses, postalCode) == addresses

overwritePostalCode(addresses, postalCode) ==
    [i \in 1..Len(addresses) |-> [addresses[i] EXCEPT !.PostalCode = postalCode]]

lookupByPostalCode(postalCode, houseNumber, houseLetter, outcome) ==
    LET normalized == Str(normalizePostalCode(postalCode))
        requestURL == postalCodeRequestURL(postalCode, houseNumber, houseLetter)
    IN  IF outcome.kind = "error"
          THEN Failed("failed to make request: " \o urlError(requestURL, outcome.cause))
        ELSE IF upstreamFailed(outcome.status)
          THEN Failed(statusError(outcome.status))
        ELSE IF ~outcome.valid
          THEN Failed("failed to parse JSON response: " \o outcome.cause)
        ELSE Found(overwritePostalCode(outcome.addresses, normalized))

-----------------------------------------------------------------------------
(* lookupByCoordinates *)

coordinatesRequestURL(latitude, longitude) ==
    baseURL \o "/" \o ToString(latitude) \o "/" \o ToString(longitude)

\* return &addresses[len(addresses)-1], nil
lastAddress(addresses) == addresses[Len(addresses)]

firstAddress(addresses) == addresses[1]

\* The *Address is a sequence of at most one Address: <<>> is nil.
lookupByCoordinates(latitude, longitude, outcome) ==
    LET requestURL == coordinatesRequestURL(latitude, longitude)
    IN  IF outcome.kind = "error"
          THEN Failed("failed to make request: " \o urlError(requestURL, outcome.cause))
        ELSE IF upstreamFailed(outcome.status)
          THEN Failed(statusError(outcome.status))
        ELSE IF ~outcome.valid
          THEN Failed("failed to parse JSON response: " \o outcome.cause)
        ELSE IF Len(outcome.addresses) = 0
          THEN Found(<<>>)
        ELSE Found(<<firstAddress(outcome.addresses)>>)

-----------------------------------------------------------------------------
(* The two HandleFuncs of registerPostalCodeTools *)

PostalCodeTool == "lookup_by_postal_code"
CoordinatesTool == "lookup_by_coordinates"

NoResult == [IsError |-> FALSE, Content |-> <<>>]

NoneForPostalCode == "No addresses found for the given postal code."
NoneForCoordinates == "No address found for the given coordinates."

\* contents = append([]mcp.Content{text}, contents...): the blocks come out reversed.
formatPrepending(addresses) ==
    [i \in 1..Len(addresses) |-> formatAddress(addresses[Len(addresses) + 1 - i])]

formatEach(addresses) ==
    [i \in 1..Len(addresses) |-> formatAddress(addresses[i])]

postalCodeHandler(postalCode, houseNumber, houseLetter, outcome) ==
    LET got == lookupByPostalCode(postalCode, houseNumber, houseLetter, outcome)
    IN  IF ~got.ok
          THEN [IsError |-> TRUE,
                Content |-> <<"Error looking up postal code: " \o got.err>>]
        ELSE IF Len(got.addresses) = 0
          THEN [IsError |-> FALSE, Content |-> <<NoneForPostalCode>>]
        ELSE [IsError |-> FALSE, Content |-> formatEach(got.addresses)]

coordinatesHandler(latitude, longitude, outcome) ==
    LET got == lookupByCoordinates(latitude, longitude, outcome)
    IN  IF ~got.ok
          THEN [IsError |-> TRUE,
                Content |-> <<"Error looking up coordinates: " \o got.err>>]
        ELSE IF got.addresses = <<>>
          THEN [IsError |-> FALSE, Content |-> <<NoneForCoordinates>>]
        ELSE [IsError |-> FALSE, Content |-> <<formatAddress(got.addresses[1])>>]

\* cctx's deadline when the handler passes ctx, not cctx, to the lookup.
parentDeadlineOnly(start, parent) == parent

\* context.WithTimeout(ctx, 5*time.Second): the earlier of the two deadlines.
handlerDeadline(start, parent) ==
    IF parent = NoDeadline THEN start + HandlerTimeout
    ELSE Min(start + HandlerTimeout, parent)

Expired(deadline, t) == deadline # NoDeadline /\ t >= deadline

\* cctx.Done() is closed: the caller cancelled, or cctx's deadline passed.
CtxDone(call, t) ==
    call.cancelAt # -1 \/ Expired(handlerDeadline(call.start, call.parentDeadline), t)

\* cctx.Err()
CtxErr(call, t) ==
    IF call.cancelAt # -1 THEN "context canceled" ELSE "context deadline exceeded"

\* What the lookup a handler calls returns to it.
lookupResult(call, outcome) ==
    IF call.tool = PostalCodeTool
      THEN lookupByPostalCode(call.postalCode, call.houseNumber, call.houseLetter, outcome)
      ELSE lookupByCoordinates(call.latitude, call.longitude, outcome)

handlerResult(call, outcome) ==
    IF call.tool = PostalCodeTool
      THEN postalCodeHandler(call.postalCode, call.houseNumber, call.houseLetter, outcome)
      ELSE coordinatesHandler(call.latitude, call.longitude, outcome)

-----------------------------------------------------------------------------
(* Inputs of the tool invocations *)

Workers == {"w1", "w2"}

PostalCodes == StringsUpTo(MaxLen)
FewPostalCodes == {<<"1", " ", "A">>}
HouseNumbers == {"", "7"}
HouseLetters == {"", "B"}
Latitudes == {0, 52}
Longitudes == {0, 4}

Dam == Address("Dam", "1012JS", "", "", 120, <<"woonfunctie">>, 1990, 52, 4,
               "121000", "487000")
Plein == Address("Plein", "2511CR", "a", "2", 0, <<>>, 0, 0, 0, "", "")

UpstreamAddresses == {Dam, Plein}

Bodies == UNION {[1..k -> UpstreamAddresses] : k \in 0..MaxAddrs}

Statuses == {404, 500}

Responses ==
    {Response(StatusOK, TRUE, b) : b \in Bodies}
        \cup {Response(StatusOK, FALSE, <<>>)}
        \cup {Response(st, v, <<Dam>>) : st \in Statuses, v \in BOOLEAN}

NetworkErrors == {"dial tcp: connection refused"}

\* Deadlines the caller's context may carry, seen from time t.
ParentDeadlines(t) == {NoDeadline, t + 2, t + HandlerTimeout + 1}

idleCall ==
    [pc |-> "idle", tool |-> "", postalCode |-> <<>>, houseNumber |-> "",
     houseLetter |-> "", latitude |-> 0, longitude |-> 0, start |-> 0,
     parentDeadline |-> NoDeadline, cancelAt |-> -1, requestURL |-> "",
     outcome |-> NoOutcome, lookup |-> Found(<<>>), result |-> NoResult]

-----------------------------------------------------------------------------
(* Tool invocations: one action per step of a HandleFunc *)

\* lookup_by_postal_code is invoked on worker w and runs up to the GET.
CallPostalCode(w, postalCode, houseNumber, houseLetter, parent) ==
    /\ calls[w].pc = "idle"
    /\ now + HandlerTimeout < MaxTime
    /\ calls' = [calls EXCEPT ![w] =
                    [idleCall EXCEPT !.pc = "awaiting", !.tool = PostalCodeTool,
                        !.postalCode = postalCode, !.houseNumber = houseNumber,
                        !.houseLetter = houseLetter, !.start = now,
                        !.parentDeadline = parent,
                        !.requestURL =
                            postalCodeRequestURL(postalCode, houseNumber, houseLetter)]]
    /\ UNCHANGED <<now, formatVars, bootVars>>

\* lookup_by_coordinates is invoked on worker w and runs up to the GET.
CallCoordinates(w, latitude, longitude, parent) ==
    /\ calls[w].pc = "idle"
    /\ now + HandlerTimeout < MaxTime
    /\ calls' = [calls EXCEPT ![w] =
                    [idleCall EXCEPT !.pc = "awaiting", !.tool = CoordinatesTool,
                        !.latitude = latitude, !.longitude = longitude, !.start = now,
                        !.parentDeadline = parent,
                        !.requestURL = coordinatesRequestURL(latitude, longitude)]]
    /\ UNCHANGED <<now, formatVars, bootVars>>

Finish(w, outcome) ==
    calls' = [calls EXCEPT ![w] =
                [@ EXCEPT !.pc = "done", !.outcome = outcome,
                          !.lookup = lookupResult(calls[w], outcome),
                          !.result = handlerResult(calls[w], outcome)]]

\* The upstream answers and the handler runs to its return.
Respond(w, response) ==
    /\ calls[w].pc = "awaiting"
    /\ Finish(w, response)
    /\ UNCHANGED <<now, formatVars, bootVars>>

\* The GET fails in the network and the handler runs to its return.
DoFail(w, cause) ==
    /\ calls[w].pc = "awaiting"
    /\ Finish(w, DoError(cause))
    /\ UNCHANGED <<now, formatVars, bootVars>>

\* cctx ended: Do gives up with cctx's error and the handler runs to its return.
Abandon(w) ==
    /\ calls[w].pc = "awaiting"
    /\ CtxDone(calls[w], now)
    /\ Finish(w, DoError(CtxErr(calls[w], now)))
    /\ UNCHANGED <<now, formatVars, bootVars>>

\* The result has gone back to the caller; the worker takes the next invocation.
Release(w) ==
    /\ calls[w].pc = "done"
    /\ calls' = [calls EXCEPT ![w] = idleCall]
    /\ UNCHANGED <<now, formatVars, bootVars>>

\* The caller cancels the invocation's context.
CallerCancel(w) ==
    /\ calls[w].pc = "awaiting"
    /\ calls[w].cancelAt = -1
    /\ calls' = [calls EXCEPT ![w].cancelAt = now]
    /\ UNCHANGED <<now, formatVars, bootVars>>

\* A second passes; a context that has ended is acted on before time moves on.
Tick ==
    /\ now < MaxTime
    /\ \A w \in DOMAIN calls : calls[w].pc = "awaiting" => ~CtxDone(calls[w], now)
    /\ now' = now + 1
    /\ UNCHANGED <<calls, formatVars, bootVars>>

-----------------------------------------------------------------------------
(* formatAddress on its own *)

FormatAddresses ==
    {Address("Dam", "1012JS", letter, suffix, area, purposes, year, lat, lon, x, y) :
        letter \in {"", "a"}, suffix \in {"", "2"}, area \in {0, 120},
        purposes \in {<<>>, <<"woonfunctie", "kantoorfunctie">>}, year \in {0, 1990},
        lat \in Latitudes, lon \in Longitudes, x \in {"", "121000"},
        y \in {"", "487000"}}

NoAddress == Address("", "", "", "", 0, <<>>, 0, 0, 0, "", "")

\* formatAddress(addr) is called.
Format(addr) ==
    /\ fmtAddr' = addr
    /\ sb' = formatWrites(addr)
    /\ fmtText' = formatAddress(addr)
    /\ UNCHANGED <<handlerVars, bootVars>>

-----------------------------------------------------------------------------
(* The bootstrap: main and its two goroutines *)

ListenAddrs == {<<":", "8">>, <<"h", ":", "8">>, <<"8">>, <<"h", ":", ":", "8">>}

LastColon(s) ==
    LET at == {i \in 1..Len(s) : s[i] = ":"}
    IN  IF at = {} THEN 0 ELSE CHOOSE i \in at : \A j \in at : j <= i

\* net.SplitHostPort on an address without brackets.
SplitHostPort(hostport) ==
    LET i == LastColon(hostport)
        host == SubSeq(hostport, 1, i - 1)
        port == SubSeq(hostport, i + 1, Len(hostport))
    IN  IF i = 0
          THEN [ok |-> FALSE, host |-> <<>>, port |-> <<>>,
                err |-> "missing port in address"]
        ELSE IF \E j \in 1..Len(host) : host[j] = ":"
          THEN [ok |-> FALSE, host |-> <<>>, port |-> <<>>,
                err |-> "too many colons in address"]
        ELSE [ok |-> TRUE, host |-> host, port |-> port, err |-> ""]

\* The error of net.SplitHostPort is dropped.
splitErrorIgnored(sse, addr) == FALSE

\* log.Fatalf("Failed to split host and port: %v", err) is reached.
splitFails(sse, addr) == sse /\ ~SplitHostPort(addr).ok

\* mcpServer.Start(ctx) is called before registerPostalCodeTools(mcpServer).
mainSeqStartFirst ==
    <<"notify", "configure", "newServer", "start", "registerPostalCode",
      "registerCoordinates", "listen", "waitSignal", "stop", "window", "shutdown",
      "wait", "exited">>

\* The statements of main, in program order.
mainSeq ==
    <<"notify", "configure", "newServer", "registerPostalCode", "registerCoordinates",
      "start", "listen", "waitSignal", "stop", "window", "shutdown", "wait", "exited">>

After(p) == mainSeq[1 + CHOOSE i \in 1..Len(mainSeq) : mainSeq[i] = p]

AllTools == {PostalCodeTool, CoordinatesTool}

\* The process is alive: main has not returned, log.Fatalf has not run, and no
\* interrupt has hit the process with the handler detached.
Running == pc \notin {"exited", "fatal", "killed"}

\* cancelContext is context.Background() without a timeout: it never expires.
windowNeverExpires(t, started) == FALSE

\* cancelContext.Done() is closed.
windowExpired(t, started) == started # -1 /\ t >= started + ShutdownTimeout

\* ctx, stop := signal.NotifyContext(context.Background(), os.Interrupt)
Notify ==
    /\ pc = "notify"
    /\ sigAttached' = TRUE
    /\ pc' = After(pc)
    /\ UNCHANGED <<handlerVars, formatVars, useStdio, useSSE, httpAddr, ctxDone, tools,
                   stdioOn, serve, shut, inShutdown, conns, wg, winStart, clock,
                   dispatched>>

\* The transports are chosen from the flags; a listen address that does not split is
\* fatal when the SSE transport is enabled.
Configure ==
    /\ pc = "configure"
    /\ pc' = IF splitFails(useSSE, httpAddr) THEN "fatal" ELSE After(pc)
    /\ UNCHANGED <<handlerVars, formatVars, useStdio, useSSE, httpAddr, sigAttached,
                   ctxDone, tools, stdioOn, serve, shut, inShutdown, conns, wg,
                   winStart, clock, dispatched>>

\* mcpServer := mcp.NewServer(mcp.ServerConfig{}, opts...)
NewServer ==
    /\ pc = "newServer"
    /\ tools' = {}
    /\ pc' = After(pc)
    /\ UNCHANGED <<handlerVars, formatVars, useStdio, useSSE, httpAddr, sigAttached,
                   ctxDone, stdioOn, serve, shut, inShutdown, conns, wg, winStart,
                   clock, dispatched>>

\* The first and the second mcpServer.RegisterTools of registerPostalCodeTools.
RegisterTool(at, tool) ==
    /\ pc = at
    /\ tools' = tools \cup {tool}
    /\ pc' = After(pc)
    /\ UNCHANGED <<handlerVars, formatVars, useStdio, useSSE, httpAddr, sigAttached,
                   ctxDone, stdioOn, serve, shut, inShutdown, conns, wg, winStart,
                   clock, dispatched>>

RegisterPostalCode == RegisterTool("registerPostalCode", PostalCodeTool)

RegisterCoordinates == RegisterTool("registerCoordinates", CoordinatesTool)

\* mcpServer.Start(ctx): the stdio transport, when enabled, starts reading requests.
Start ==
    /\ pc = "start"
    /\ stdioOn' = useStdio
    /\ pc' = After(pc)
    /\ UNCHANGED <<handlerVars, formatVars, useStdio, useSSE, httpAddr, sigAttached,
                   ctxDone, tools, serve, shut, inShutdown, conns, wg, winStart, clock,
                   dispatched>>

\* httpServer is built and, with SSE enabled, a goroutine is started for
\* httpServer.ListenAndServe.
Listen ==
    /\ pc = "listen"
    /\ serve' = IF useSSE THEN "spawned" ELSE serve
    /\ pc' = After(pc)
    /\ UNCHANGED <<handlerVars, formatVars, useStdio, useSSE, httpAddr, sigAttached,
                   ctxDone, tools, stdioOn, shut, inShutdown, conns, wg, winStart,
                   clock, dispatched>>

\* <-ctx.Done()
WaitSignal ==
    /\ pc = "waitSignal"
    /\ ctxDone
    /\ pc' = After(pc)
    /\ UNCHANGED <<handlerVars, formatVars, useStdio, useSSE, httpAddr, sigAttached,
                   ctxDone, tools, stdioOn, serve, shut, inShutdown, conns, wg,
                   winStart, clock, dispatched>>

\* stop()
Stop ==
    /\ pc = "stop"
    /\ sigAttached' = FALSE
    /\ pc' = After(pc)
    /\ UNCHANGED <<handlerVars, formatVars, useStdio, useSSE, httpAddr, ctxDone, tools,
                   stdioOn, serve, shut, inShutdown, conns, wg, winStart, clock,
                   dispatched>>

\* cancelContext, cancel := context.WithTimeout(context.Background(), timeout)
Window ==
    /\ pc = "window"
    /\ winStart' = clock
    /\ pc' = After(pc)
    /\ UNCHANGED <<handlerVars, formatVars, useStdio, useSSE, httpAddr, sigAttached,
                   ctxDone, tools, stdioOn, serve, shut, inShutdown, conns, wg, clock,
                   dispatched>>

\* if useSSE { wg.Add(1); go func() { ... httpServer.Shutdown(cancelContext) ... }() }
SpawnShutdown ==
    /\ pc = "shutdown"
    /\ wg' = IF useSSE THEN wg + 1 ELSE wg
    /\ shut' = IF useSSE THEN "spawned" ELSE shut
    /\ pc' = After(pc)
    /\ UNCHANGED <<handlerVars, formatVars, useStdio, useSSE, httpAddr, sigAttached,
                   ctxDone, tools, stdioOn, serve, inShutdown, conns, winStart, clock,
                   dispatched>>

\* wg.Wait() returns and main returns.
Wait ==
    /\ pc = "wait"
    /\ wg = 0
    /\ pc' = After(pc)
    /\ UNCHANGED <<handlerVars, formatVars, useStdio, useSSE, httpAddr, sigAttached,
                   ctxDone, tools, stdioOn, serve, shut, inShutdown, conns, wg,
                   winStart, clock, dispatched>>

\* httpServer.ListenAndServe() in its goroutine: ErrServerClosed after Shutdown,
\* otherwise the listener binds or log.Fatalf ends the process.
ListenAndServe(bound) ==
    /\ Running
    /\ serve = "spawned"
    /\ IF inShutdown
         THEN serve' = "closed" /\ pc' = pc
         ELSE IF bound
           THEN serve' = "serving" /\ pc' = pc
           ELSE serve' = "failed" /\ pc' = "fatal"
    /\ UNCHANGED <<handlerVars, formatVars, useStdio, useSSE, httpAddr, sigAttached,
                   ctxDone, tools, stdioOn, shut, inShutdown, conns, wg, winStart,
                   clock, dispatched>>

\* Shutdown closed the listener: ListenAndServe returns http.ErrServerClosed.
ServeReturn ==
    /\ Running
    /\ serve = "serving"
    /\ inShutdown
    /\ serve' = "closed"
    /\ UNCHANGED <<handlerVars, formatVars, useStdio, useSSE, httpAddr, pc, sigAttached,
                   ctxDone, tools, stdioOn, shut, inShutdown, conns, wg, winStart,
                   clock, dispatched>>

\* httpServer.Shutdown(cancelContext) is entered: no new requests from here on.
ShutdownCall ==
    /\ Running
    /\ shut = "spawned"
    /\ shut' = "draining"
    /\ inShutdown' = TRUE
    /\ UNCHANGED <<handlerVars, formatVars, useStdio, useSSE, httpAddr, pc, sigAttached,
                   ctxDone, tools, stdioOn, serve, conns, wg, winStart, clock,
                   dispatched>>

\* httpServer.Shutdown returns, nil once no request is in flight, else
\* context.DeadlineExceeded once the window has expired; then wg.Done().
ShutdownReturn ==
    /\ Running
    /\ shut = "draining"
    /\ conns = 0 \/ windowExpired(clock, winStart)
    /\ shut' = IF conns = 0 THEN "drained" ELSE "expired"
    /\ wg' = wg - 1
    /\ UNCHANGED <<handlerVars, formatVars, useStdio, useSSE, httpAddr, pc, sigAttached,
                   ctxDone, tools, stdioOn, serve, inShutdown, conns, winStart, clock,
                   dispatched>>

\* os.Interrupt arrives: ctx is cancelled while the handler is attached, the process
\* is terminated otherwise.
Interrupt ==
    /\ Running
    /\ ~(sigAttached /\ ctxDone)
    /\ sigAttached => clock + ShutdownTimeout < MaxTime
    /\ IF sigAttached THEN ctxDone' = TRUE /\ pc' = pc
                      ELSE ctxDone' = ctxDone /\ pc' = "killed"
    /\ UNCHANGED <<handlerVars, formatVars, useStdio, useSSE, httpAddr, sigAttached,
                   tools, stdioOn, serve, shut, inShutdown, conns, wg, winStart, clock,
                   dispatched>>

\* A tool request arrives on stdin and is dispatched against the registered tools.
StdioRequest ==
    /\ Running
    /\ stdioOn
    /\ dispatched' = dispatched \cup {tools}
    /\ UNCHANGED <<handlerVars, formatVars, useStdio, useSSE, httpAddr, pc, sigAttached,
                   ctxDone, tools, stdioOn, serve, shut, inShutdown, conns, wg,
                   winStart, clock>>

\* httpServer accepts a request and dispatches it against the registered tools.
HTTPRequest ==
    /\ Running
    /\ serve = "serving"
    /\ ~inShutdown
    /\ conns < MaxConns
    /\ conns' = conns + 1
    /\ dispatched' = dispatched \cup {tools}
    /\ UNCHANGED <<handlerVars, formatVars, useStdio, useSSE, httpAddr, pc, sigAttached,
                   ctxDone, tools, stdioOn, serve, shut, inShutdown, wg, winStart,
                   clock>>

\* A request in flight on httpServer ends.
HTTPRequestDone ==
    /\ Running
    /\ conns > 0
    /\ conns' = conns - 1
    /\ UNCHANGED <<handlerVars, formatVars, useStdio, useSSE, httpAddr, pc, sigAttached,
                   ctxDone, tools, stdioOn, serve, shut, inShutdown, wg, winStart,
                   clock, dispatched>>

\* main or one of its goroutines can take a step now.
StepEnabled ==
    \/ pc \notin {"waitSignal", "wait", "exited", "fatal", "killed"}
    \/ pc = "waitSignal" /\ ctxDone
    \/ pc = "wait" /\ wg = 0
    \/ serve = "spawned"
    \/ serve = "serving" /\ inShutdown
    \/ shut = "spawned"
    \/ shut = "draining" /\ (conns = 0 \/ windowExpired(clock, winStart))

\* A second passes while main and its goroutines are blocked.
BootTick ==
    /\ Running
    /\ ~StepEnabled
    /\ clock < MaxTime
    /\ clock' = clock + 1
    /\ UNCHANGED <<handlerVars, formatVars, useStdio, useSSE, httpAddr, pc, sigAttached,
                   ctxDone, tools, stdioOn, serve, shut, inShutdown, conns, wg,
                   winStart, dispatched>>

-----------------------------------------------------------------------------
(* Specifications *)

HandlerIdle == calls = [w \in {"w1"} |-> idleCall] /\ now = 0

FormatIdle == fmtAddr = NoAddress /\ sb = <<>> /\ fmtText = ""

BootIdle ==
    /\ useStdio = TRUE /\ useSSE = FALSE /\ httpAddr = <<":", "8">>
    /\ pc = "notify" /\ sigAttached = FALSE /\ ctxDone = FALSE /\ tools = {}
    /\ stdioOn = FALSE /\ serve = "none" /\ shut = "none" /\ inShutdown = FALSE
    /\ conns = 0 /\ wg = 0 /\ winStart = -1 /\ clock = 0 /\ dispatched = {}

\* One worker serving one invocation after another, over all the inputs.
Init == HandlerIdle /\ FormatIdle /\ BootIdle

Next ==
    \/ \E w \in DOMAIN calls, p \in PostalCodes, hn \in HouseNumbers,
          hl \in HouseLetters : CallPostalCode(w, p, hn, hl, NoDeadline)
    \/ \E w \in DOMAIN calls, lat \in Latitudes, lon \in Longitudes :
          CallCoordinates(w, lat, lon, NoDeadline)
    \/ \E w \in DOMAIN calls, r \in Responses : Respond(w, r)
    \/ \E w \in DOMAIN calls, e \in NetworkErrors : DoFail(w, e)
    \/ \E w \in DOMAIN calls : CallerCancel(w)
    \/ \E w \in DOMAIN calls : Abandon(w)
    \/ \E w \in DOMAIN calls : Release(w)

Spec == Init /\ [][Next]_vars

\* Two workers serving invocations concurrently.
ConcInit ==
    /\ calls = [w \in Workers |-> idleCall] /\ now = 0
    /\ FormatIdle /\ BootIdle

ConcNext ==
    \/ \E w \in DOMAIN calls, p \in FewPostalCodes, hn \in HouseNumbers :
          CallPostalCode(w, p, hn, "", NoDeadline)
    \/ \E w \in DOMAIN calls : CallCoordinates(w, 52, 4, NoDeadline)
    \/ \E w \in DOMAIN calls, r \in Responses : Respond(w, r)
    \/ \E w \in DOMAIN calls, e \in NetworkErrors : DoFail(w, e)
    \/ \E w \in DOMAIN calls : CallerCancel(w)
    \/ \E w \in DOMAIN calls : Abandon(w)
    \/ \E w \in DOMAIN calls : Release(w)

ConcSpec == ConcInit /\ [][ConcNext]_vars

\* One worker, with the clock running and the caller's deadline drawn.
TimedNext ==
    \/ \E w \in DOMAIN calls, p \in FewPostalCodes, d \in ParentDeadlines(now) :
          CallPostalCode(w, p, "7", "", d)
    \/ \E w \in DOMAIN calls, d \in ParentDeadlines(now) :
          CallCoordinates(w, 52, 4, d)
    \/ \E w \in DOMAIN calls, r \in Responses : Respond(w, r)
    \/ \E w \in DOMAIN calls, e \in NetworkErrors : DoFail(w, e)
    \/ \E w \in DOMAIN calls : CallerCancel(w)
    \/ \E w \in DOMAIN calls : Abandon(w)
    \/ \E w \in DOMAIN calls : Release(w)
    \/ Tick

TimedSpec ==
    /\ Init
    /\ [][TimedNext]_vars
    /\ WF_vars(Tick)
    /\ \A w \in {"w1"} : WF_vars(Abandon(w))

\* formatAddress applied to one address after another.
FormatNext == \E addr \in FormatAddresses : Format(addr)

FormatSpec == Init /\ [][FormatNext]_vars

\* main from its first statement, for every setting of the flags.
BootInit ==
    /\ HandlerIdle /\ FormatIdle
    /\ useStdio \in BOOLEAN /\ useSSE \in BOOLEAN /\ httpAddr \in ListenAddrs
    /\ pc = "notify" /\ sigAttached = FALSE /\ ctxDone = FALSE /\ tools = {}
    /\ stdioOn = FALSE /\ serve = "none" /\ shut = "none" /\ inShutdown = FALSE
    /\ conns = 0 /\ wg = 0 /\ winStart = -1 /\ clock = 0 /\ dispatched = {}

MainStep ==
    \/ Notify
    \/ Configure
    \/ NewServer
    \/ RegisterPostalCode
    \/ RegisterCoordinates
    \/ Start
    \/ Listen
    \/ WaitSignal
    \/ Stop
    \/ Window
    \/ SpawnShutdown
    \/ Wait

GoroutineStep ==
    \/ \E bound \in BOOLEAN : ListenAndServe(bound)
    \/ ServeReturn
    \/ ShutdownCall
    \/ ShutdownReturn

BootNext ==
    \/ MainStep
    \/ GoroutineStep
    \/ Interrupt
    \/ StdioRequest
    \/ HTTPRequest
    \/ HTTPRequestDone
    \/ BootTick

BootSpec ==
    /\ BootInit
    /\ [][BootNext]_vars
    /\ WF_vars(MainStep)
    /\ WF_vars(GoroutineStep)
    /\ WF_vars(BootTick)

-----------------------------------------------------------------------------
(* Properties of the tool invocations *)

NoSpaces(s) == SelectSeq(s, LAMBDA ch : ch # " ")

Succeeded(c) ==
    /\ c.pc = "done"
    /\ c.outcome.kind = "response"
    /\ c.outcome.status = 200
    /\ c.outcome.valid

\* The upstream answered, with a status other than 200 or with a body that does not
\* decode.
UpstreamRejected(c) ==
    /\ c.pc = "done"
    /\ c.outcome.kind = "response"
    /\ c.outcome.status # 200 \/ ~c.outcome.valid

ErrorPrefix(c) ==
    IF c.tool = PostalCodeTool THEN "Error looking up postal code: "
    ELSE "Error looking up coordinates: "

AddressBlocks == {formatAddress(a) : a \in UpstreamAddresses}

\* C1: after a successful lookup_by_postal_code every address the lookup returns
\* carries the caller's postal code without its spaces, whatever postcode the upstream
\* sent; lookup_by_coordinates returns the upstream's postcode untouched.
C1_PostalCodeOverwritten ==
    \A w \in DOMAIN calls :
        LET c == calls[w]
        IN  Succeeded(c) =>
              IF c.tool = PostalCodeTool
                THEN /\ Len(c.lookup.addresses) = Len(c.outcome.addresses)
                     /\ \A i \in 1..Len(c.lookup.addresses) :
                           c.lookup.addresses[i].PostalCode = Str(NoSpaces(c.postalCode))
                ELSE \A i \in 1..Len(c.lookup.addresses) :
                        c.lookup.addresses[i].PostalCode
                            = c.outcome.addresses[i].PostalCode

C1_Witness ==
    \E w \in DOMAIN calls :
        /\ Succeeded(calls[w])
        /\ calls[w].tool = PostalCodeTool
        /\ calls[w].postalCode = <<"1", " ", "A">>
        /\ calls[w].outcome.addresses = <<Dam, Plein>>
        /\ calls[w].lookup.addresses[2].PostalCode = "1A"

ExpectedPath(c) ==
    LET N == Str(NoSpaces(c.postalCode))
    IN  IF c.houseNumber = "" THEN "/" \o N
        ELSE IF c.houseLetter = "" THEN "/" \o N \o "/" \o c.houseNumber
        ELSE "/" \o N \o "/" \o c.houseNumber \o "/" \o c.houseLetter

\* C2: the request of lookup_by_postal_code goes to /<N>, /<N>/<houseNumber> or
\* /<N>/<houseNumber>/<houseLetter> (the letter only with a house number), N being the
\* postal code without its spaces; postal codes that differ only in spaces give the
\* same request, and normalizing twice is normalizing once.
C2_RequestPath ==
    \A w \in DOMAIN calls :
        LET c == calls[w]
        IN  (c.pc # "idle" /\ c.tool = PostalCodeTool) =>
              /\ c.requestURL = baseURL \o ExpectedPath(c)
              /\ \A q \in PostalCodes :
                    NoSpaces(q) = NoSpaces(c.postalCode) =>
                        postalCodeRequestURL(q, c.houseNumber, c.houseLetter)
                            = c.requestURL
              /\ normalizePostalCode(normalizePostalCode(c.postalCode))
                    = normalizePostalCode(c.postalCode)

C2_Witness ==
    \E w \in DOMAIN calls :
        /\ calls[w].pc = "awaiting"
        /\ calls[w].postalCode = <<" ", "1", " ">>
        /\ calls[w].houseNumber = "7"
        /\ calls[w].houseLetter = "B"
        /\ calls[w].requestURL = "https://berthub.eu/pcode/1/7/B"

\* C3: a successful lookup_by_postal_code with no address gives the one informational
\* text, not an error; with N >= 1 addresses it gives N blocks, the i-th the formatting
\* of the upstream's i-th address (under the caller's postal code), not an error.
C3_OneBlockPerAddress ==
    \A w \in DOMAIN calls :
        LET c == calls[w]
            N == Len(c.outcome.addresses)
        IN  (Succeeded(c) /\ c.tool = PostalCodeTool) =>
              /\ ~c.result.IsError
              /\ N = 0 => c.result.Content = <<NoneForPostalCode>>
              /\ N >= 1 =>
                    /\ Len(c.result.Content) = N
                    /\ \A i \in 1..N :
                          c.result.Content[i]
                            = formatAddress([c.outcome.addresses[i] EXCEPT
                                  !.PostalCode = Str(NoSpaces(c.postalCode))])

C3_Witness ==
    \E w \in DOMAIN calls :
        /\ Succeeded(calls[w])
        /\ calls[w].tool = PostalCodeTool
        /\ calls[w].outcome.addresses = <<Plein, Dam>>
        /\ Len(calls[w].result.Content) = 2
        /\ calls[w].result.Content[1] # calls[w].result.Content[2]

\* C4: a successful lookup_by_coordinates with N >= 1 addresses gives exactly one
\* block, the formatting of the upstream's first address; with none it gives the
\* informational text; neither is an error.
C4_FirstAddressOnly ==
    \A w \in DOMAIN calls :
        LET c == calls[w]
            N == Len(c.outcome.addresses)
        IN  (Succeeded(c) /\ c.tool = CoordinatesTool) =>
              /\ ~c.result.IsError
              /\ N = 0 => c.result.Content = <<NoneForCoordinates>>
              /\ N >= 1 => c.result.Content = <<formatAddress(c.outcome.addresses[1])>>

C4_Witness ==
    \E w \in DOMAIN calls :
        /\ Succeeded(calls[w])
        /\ calls[w].tool = CoordinatesTool
        /\ calls[w].outcome.addresses = <<Plein, Dam>>
        /\ calls[w].result.Content = <<formatAddress(Plein)>>

C5_ErrorResult ==
    \A w \in DOMAIN calls :
        LET c == calls[w]
        IN  /\ UpstreamRejected(c) =>
                /\ c.result.IsError
                /\ Len(c.result.Content) = 1
                /\ c.result.Content[1] \notin AddressBlocks
                /\ c.outcome.status # 200 =>
                      c.result.Content[1]
                        = ErrorPrefix(c) \o "API returned status code "
                            \o ToString(c.outcome.status)
            /\ Succeeded(c) => ~c.result.IsError
            /\ \A v \in DOMAIN calls :
                  (/\ calls[v].pc = "done"
                   /\ c.pc = "done"
                   /\ calls[v].tool = c.tool
                   /\ calls[v].requestURL = c.requestURL
                   /\ calls[v].outcome = c.outcome) => calls[v].result = c.result

\* A step in which an invocation ends in an error leaves every other invocation as
\* it was.
C5_FailureIsLocal ==
    \A w \in DOMAIN calls :
        (calls[w].pc = "awaiting" /\ calls'[w].pc = "done" /\ calls'[w].result.IsError)
            => \A v \in DOMAIN calls \ {w} : calls'[v] = calls[v]

AbandonBy(c) ==
    LET a == c.start + 5
        b == IF c.parentDeadline # NoDeadline THEN Min(a, c.parentDeadline) ELSE a
    IN  IF c.cancelAt # -1 THEN Min(b, c.cancelAt) ELSE b

Abandoned(c) ==
    /\ c.pc = "done"
    /\ c.outcome.kind = "error"
    /\ c.outcome.cause \in {"context deadline exceeded", "context canceled"}

C6_Bounded ==
    \A w \in DOMAIN calls :
        LET c == calls[w]
        IN  /\ c.pc = "awaiting" => now <= AbandonBy(c)
            /\ Abandoned(c) =>
                  /\ c.result.IsError
                  /\ Len(c.result.Content) = 1
                  /\ c.result.Content[1]
                        \notin AddressBlocks \cup {NoneForPostalCode, NoneForCoordinates}

C6_Ends == \A w \in {"w1"} : (calls[w].pc = "awaiting") ~> (calls[w].pc = "done")

\* C6: every tool invocation ends; its outbound call is given up at the caller's
\* cancellation or deadline or 5 seconds after the handler started, whichever comes
\* first, no invocation is pending after that, and an invocation given up returns one
\* error text, no address block and not the "none found" text.
C6_InvocationEnds == []C6_Bounded /\ C6_Ends

C6_Witness ==
    /\ Abandoned(calls["w1"])
    /\ calls["w1"].parentDeadline = NoDeadline
    /\ calls["w1"].outcome.cause = "context deadline exceeded"
    /\ calls["w1"].start = 1
    /\ now = 6
    /\ calls["w1"].result.IsError

-----------------------------------------------------------------------------
(* Properties of formatAddress *)

Formatted == sb # <<>>

HasWGS84Line == \E i \in 1..Len(sb) : sb[i] = wgs84Line(fmtAddr)

\* C7, as the code has it: formatAddress writes the "Coordinates (WGS84)" line exactly
\* when latitude and longitude are both other than 0; it leaves the line out when
\* either of them is 0.
C7_LineIffBothNonZero ==
    Formatted => (HasWGS84Line <=> (fmtAddr.Latitude # 0 /\ fmtAddr.Longitude # 0))

\* C7 as claimed: the line is left out exactly for the pair (0, 0) and written for
\* every other pair, also when only one of the two is 0.
C7_LineOmittedOnlyForZeroPair ==
    Formatted => (~HasWGS84Line <=> (fmtAddr.Latitude = 0 /\ fmtAddr.Longitude = 0))

C7_Witness ==
    /\ Formatted
    /\ fmtAddr.Latitude = 0
    /\ fmtAddr.Longitude = 4
    /\ ~HasWGS84Line
    /\ fmtText = Join(sb, "")

-----------------------------------------------------------------------------
(* Properties of the bootstrap *)

Accepting == stdioOn \/ (serve = "serving" /\ ~inShutdown)

C8_RegisteredFirst ==
    /\ Accepting => tools = AllTools
    /\ \A seen \in dispatched : seen = AllTools

C8_ToolsFixed == (tools = AllTools \/ Accepting) => tools' = tools

\* C8: both tools are registered before a transport accepts requests: no transport
\* accepts, and no request is dispatched, while lookup_by_postal_code or
\* lookup_by_coordinates is missing, and the registered tools never change afterwards.
C8_ToolsBeforeTransports == []C8_RegisteredFirst /\ [][C8_ToolsFixed]_vars

C8_Witness ==
    /\ stdioOn
    /\ serve = "serving"
    /\ conns = 1
    /\ dispatched = {AllTools}
    /\ pc = "waitSignal"

C9_Shutdown ==
    /\ pc \in {"window", "shutdown", "wait", "exited"} => (ctxDone /\ ~sigAttached)
    /\ pc \in {"shutdown", "wait", "exited"} => winStart # -1
    /\ (pc \in {"wait", "exited"} /\ useSSE) => shut # "none"
    /\ (pc = "exited" /\ useSSE) =>
          \/ shut = "drained" /\ conns = 0
          \/ shut = "expired" /\ clock >= winStart + 5
    /\ (pc = "exited" /\ ~useSSE) => (shut = "none" /\ clock = winStart)
    /\ winStart # -1 => clock <= winStart + 5

C9_Exits == ctxDone ~> ~Running

\* C9: after the first interrupt main detaches the signal handler, opens a 5-second
\* window and asks the HTTP server, if it runs, to shut down; main returns only when
\* that shutdown has completed or the window has expired, it always does so, within
\* the window, and with only the stdio transport it returns right after the interrupt.
C9_GracefulShutdown == []C9_Shutdown /\ C9_Exits

C9_Witness ==
    /\ pc = "exited"
    /\ useSSE
    /\ shut = "expired"
    /\ conns = 1
    /\ clock = winStart + 5

Colons(addr) == Cardinality({i \in 1..Len(addr) : addr[i] = ":"})

\* A listen address (without brackets) splits into host and port when it has exactly
\* one colon.
Malformed(addr) == Colons(addr) # 1

NothingStarted ==
    /\ pc \in {"notify", "configure", "fatal", "killed"}
    /\ ~stdioOn
    /\ serve = "none"
    /\ dispatched = {}

\* C10, as the code has it: with the SSE transport enabled, whatever -stdio is, a
\* listen address that does not split into host and port ends the process before a
\* transport starts; with the SSE transport disabled the address is never looked at.
C10_FatalWhenSSE == (useSSE /\ Malformed(httpAddr)) => NothingStarted

\* C10 as claimed: for every setting of the transport flags, a listen address that
\* does not split ends the process before a transport starts.
C10_FatalAlways == Malformed(httpAddr) => NothingStarted

C10_Witness ==
    /\ useSSE
    /\ useStdio
    /\ Malformed(httpAddr)
    /\ pc = "fatal"
    /\ ~stdioOn

====
